---- MODULE Spec2Model ----
(***************************************************************************)
(* A model of app.py, the generative 3D poster: random_palette, blob,      *)
(* shape, rotate_coords and generate_3d_poster, with the two process-wide  *)
(* random streams (random, numpy.random) and the module-level n_sides.     *)
(*                                                                         *)
(* Numbers.  Python floats are modelled as exact rationals <<n, d>> in     *)
(* lowest terms, so rounding error is outside the model.  Angles are kept  *)
(* symbolic (a fraction of a full turn plus a number of radians), and a    *)
(* point of the plane is a formal sum of rotated rational vectors, so that *)
(* cos and sin are never approximated: two points with the same normal     *)
(* form are the same point of the plane.                                   *)
(***************************************************************************)
EXTENDS Integers, Sequences, FiniteSets, TLC

(***************************************************************************)
(* Bounds of the model                                                     *)
(***************************************************************************)
\* states of each modelled pseudo-random stream (the period of the stream)
StreamMod == 8
\* points per outline; shape() and blob() default to points=1000
NumPoints == 3
\* n_layers ranges over 0..MaxLayers
MaxLayers == 2
\* integer seeds range over 0..MaxSeed
MaxSeed == 1
\* colour channels range over NLevels+1 evenly spaced bytes of 0..255
NLevels == 3
\* random_palette is applied to k in 1..MaxK in the palette specification
MaxK == 2

(***************************************************************************)
(* State                                                                   *)
(***************************************************************************)
VARIABLES
    pyState,     \* the state of the `random` stream
    npState,     \* the state of the `numpy.random` stream
    n_sides,     \* the module-level n_sides
    call,        \* <<>>, or <<a>> for the arguments a of the pending or last call
    outcome,     \* "none", or how the last call ended: "returned", "raised"
    canvas,      \* what the last call drew on the current figure, in order
    title_used,  \* the text colour the last call ended with
    palette,     \* the palette of the last call
    outlines,    \* the calls of shape() in the last call: center, r, returned points
    used_sides,  \* n_sides as it was during the last call (0: no call yet)
    calls,       \* calls made so far, counted up to 2 (a history variable)
    ref          \* <<>>, or <<r>> for the first tracked call r (a history variable)

vars == <<pyState, npState, n_sides, call, outcome, canvas, title_used, palette,
          outlines, used_sides, calls, ref>>

(***************************************************************************)
(* Exact rational arithmetic                                               *)
(***************************************************************************)
RECURSIVE GCD(_, _)
GCD(a, b) == IF b = 0 THEN a ELSE GCD(b, a % b)

Abs(n) == IF n < 0 THEN -n ELSE n

\* the rational n/d (d > 0) in lowest terms
R(n, d) == LET g == GCD(Abs(n), d) IN <<n \div g, d \div g>>

RAdd(p, q) == R(p[1] * q[2] + q[1] * p[2], p[2] * q[2])
RSub(p, q) == R(p[1] * q[2] - q[1] * p[2], p[2] * q[2])
RMul(p, q) == R(p[1] * q[1], p[2] * q[2])
RNeg(p) == <<-p[1], p[2]>>
RLeq(p, q) == p[1] * q[2] <= q[1] * p[2]
RLt(p, q) == p[1] * q[2] < q[1] * p[2]
RAbs(p) == <<Abs(p[1]), p[2]>>
RZero == <<0, 1>>
ROne == <<1, 1>>
\* floor of a non-negative rational
RFloor(p) == p[1] \div p[2]
\* n/d as a rational, for an integer n
RInt(n) == <<n, 1>>

\* np.clip(v, 0, 1) on one channel
Clip01(p) == IF RLt(p, RZero) THEN RZero ELSE IF RLt(ROne, p) THEN ROne ELSE p

(***************************************************************************)
(* Symbolic angles and points                                              *)
(***************************************************************************)
\* an angle of 2*pi*turn + rad radians; turn is kept in [0, 1)
Ang(turn, rad) == [turn |-> R(turn[1] % turn[2], turn[2]), rad |-> rad]
AngZero == Ang(RZero, RZero)
AngAdd(a, b) == Ang(RAdd(a.turn, b.turn), RAdd(a.rad, b.rad))
AngNeg(a) == Ang(RNeg(a.turn), RNeg(a.rad))

VZero == <<RZero, RZero>>
VAdd(v, w) == <<RAdd(v[1], w[1]), RAdd(v[2], w[2])>>
VNeg(v) == <<RNeg(v[1]), RNeg(v[2])>>

\* A point is a set of terms [ang, vec], standing for the sum over the terms
\* of vec rotated by ang; no two terms share an angle and no vec is zero.
Coef(P, a) == IF \E t \in P : t.ang = a
              THEN (CHOOSE t \in P : t.ang = a).vec
              ELSE VZero
PAdd(P, Q) == LET angs == {t.ang : t \in P \cup Q}
                  all == {[ang |-> a, vec |-> VAdd(Coef(P, a), Coef(Q, a))] : a \in angs}
              IN {t \in all : t.vec # VZero}
PNeg(P) == {[ang |-> t.ang, vec |-> VNeg(t.vec)] : t \in P}
PSub(P, Q) == PAdd(P, PNeg(Q))
\* P rotated about the origin by the angle a
PRot(P, a) == {[ang |-> AngAdd(t.ang, a), vec |-> t.vec] : t \in P}
\* the point (x, y)
PXY(x, y) == IF <<x, y>> = VZero THEN {} ELSE {[ang |-> AngZero, vec |-> <<x, y>>]}
\* the point (r*cos(a), r*sin(a))
PPolar(r, a) == IF r = RZero THEN {} ELSE {[ang |-> a, vec |-> <<r, RZero>>]}

(***************************************************************************)
(* The two random streams                                                  *)
(*                                                                         *)
(* The Mersenne Twister streams of `random` and `numpy.random` are         *)
(* modelled as streams of period StreamMod: seeding sets the state from    *)
(* the seed alone, every draw advances the state by one step and returns   *)
(* a value of [0, 1) that is a fixed scrambling of the state.              *)
(***************************************************************************)
StreamStates == 0..(StreamMod - 1)

\* the state after n draws from state s
Advance(s, n) == (s + (IF n <= 0 THEN 0 ELSE n)) % StreamMod

\* the value a draw returns on reaching state s, in [0, 1)
StreamOut(s) == R((5 * s + 3) % StreamMod, StreamMod)

\* the value of the j-th draw after state s
Draw(s, j) == StreamOut(Advance(s, j))
\* the values of draws from+1 .. from+n after state s
Draws(s, from, n) == [j \in 1..n |-> Draw(s, from + j)]

\* random.seed(seed) for an integer seed
PySeed(seed) == seed % StreamMod
\* np.random.seed(seed) left out: the stream goes on from where it is
NpSeedSkipped(seed) == npState
\* np.random.seed(seed) for an integer seed
NpSeed(seed) == (3 * seed + 1) % StreamMod

\* random.uniform(a, b) on the draw u: a + (b-a)*random()
Uniform(a, b, u) == RAdd(a, RMul(RSub(b, a), u))
\* random.choice(seq) on the draw u: a uniformly drawn index
Choice(seq, u) == seq[RFloor(RMul(RInt(Len(seq)), u)) + 1]

(***************************************************************************)
(* luminance and the colour palette                                        *)
(***************************************************************************)
\* hundredths and thousandths as rationals
D(n) == R(n, 100)
M(n) == R(n, 1000)

luminance(rgb) ==
    RAdd(RAdd(RMul(M(299), rgb[1]), RMul(M(587), rgb[2])), RMul(M(114), rgb[3]))

earth_tones == << <<D(42), D(26), D(15)>>, <<D(55), D(47), D(37)>>, <<D(62), D(74), D(55)>>,
                  <<D(84), D(78), D(58)>>, <<D(40), D(55), D(30)>> >>
ocean_tones == << <<D(0), D(30), D(50)>>, <<D(10), D(60), D(80)>>, <<D(20), D(80), D(90)>>,
                  <<D(0), D(50), D(40)>>, <<D(40), D(90), D(100)>> >>
sunset_tones == << <<D(100), D(50), D(0)>>, <<D(100), D(20), D(30)>>, <<D(80), D(30), D(60)>>,
                   <<D(60), D(20), D(80)>>, <<D(90), D(70), D(30)>> >>
cyber_colors == << <<D(100), D(0), D(80)>>, <<D(0), D(100), D(100)>>, <<D(20), D(20), D(100)>>,
                   <<D(100), D(80), D(10)>>, <<D(10), D(0), D(10)>> >>

\* the style tags of the selectbox, and one tag random_palette does not know
KnownStyles == {"pastel", "neon", "monochrome", "earth", "ocean", "sunset", "cyberpunk"}
Styles == KnownStyles \cup {"vivid"}

\* the number of draws random_palette(style, k) takes from the random stream
PaletteDraws(style, k) ==
    IF style \in {"earth", "ocean", "sunset", "cyberpunk"} THEN k
    ELSE IF style = "monochrome" THEN k + 1
    ELSE 3 * k

\* the monochrome channel of one colour: base + 0.1*random.random()
MonoChannel(base, u) == RAdd(base, RMul(D(10), u))

\* random_palette(style, k), rnd being the draws it takes, in order
random_palette(style, k, rnd) ==
    IF style = "pastel" THEN
        [i \in 1..k |-> << RAdd(D(60), RMul(D(40), rnd[3*i - 2])),
                           RAdd(D(60), RMul(D(40), rnd[3*i - 1])),
                           RAdd(D(60), RMul(D(40), rnd[3*i])) >>]
    ELSE IF style = "neon" THEN
        [i \in 1..k |-> << Uniform(D(50), ROne, rnd[3*i - 2]),
                           Uniform(RZero, ROne, rnd[3*i - 1]),
                           Uniform(D(50), ROne, rnd[3*i]) >>]
    ELSE IF style = "monochrome" THEN
        [i \in 1..k |-> LET c == MonoChannel(rnd[1], rnd[1 + i]) IN <<c, c, c>>]
    ELSE IF style = "earth" THEN [i \in 1..k |-> Choice(earth_tones, rnd[i])]
    ELSE IF style = "ocean" THEN [i \in 1..k |-> Choice(ocean_tones, rnd[i])]
    ELSE IF style = "sunset" THEN [i \in 1..k |-> Choice(sunset_tones, rnd[i])]
    ELSE IF style = "cyberpunk" THEN [i \in 1..k |-> Choice(cyber_colors, rnd[i])]
    ELSE [i \in 1..k |-> <<rnd[3*i - 2], rnd[3*i - 1], rnd[3*i]>>]

(***************************************************************************)
(* Shape generators                                                        *)
(***************************************************************************)
\* np.linspace(0, 2*pi, n, endpoint): the n angles, as fractions of a turn
Linspace(n, endpoint) ==
    [j \in 1..n |-> IF n = 1 THEN AngZero
                    ELSE Ang(R(j - 1, IF endpoint THEN n - 1 ELSE n), RZero)]

\* blob(center, r, points, wobble); noise is np.random.rand(points)
blob(center, r, points, wobble, noise) ==
    LET angles == Linspace(points, TRUE)
        radii == [j \in 1..points |->
                    RMul(r, RAdd(ROne, RMul(wobble, RSub(noise[j], D(50)))))]
    IN [j \in 1..points |-> PAdd(center, PPolar(radii[j], angles[j]))]

\* the polygon with np.linspace's default endpoint=True
polygonEndpoint(center, r, sides) ==
    LET angles == Linspace(sides, TRUE)
        xy == [j \in 1..sides |-> PAdd(center, PPolar(r, angles[j]))]
    IN Append(xy, xy[1])
\* the outline of shape_type "polygon" for the side count sides
polygon(center, r, sides) ==
    LET angles == Linspace(sides, FALSE)
        xy == [j \in 1..sides |-> PAdd(center, PPolar(r, angles[j]))]
    IN Append(xy, xy[1])

\* shape(center, r, points, wobble, shape_type), reading the global n_sides;
\* noise is what np.random.rand(points) returns if the blob branch is taken
shape(center, r, points, wobble, shape_type, sides, noise) ==
    IF shape_type = "circle" THEN
        LET angles == Linspace(points, TRUE)
        IN [j \in 1..points |-> PAdd(center, PPolar(r, angles[j]))]
    ELSE IF shape_type = "polygon" THEN polygon(center, r, sides)
    ELSE blob(center, r, points, wobble, noise)

\* the draws shape() takes from the numpy stream
ShapeNoise(shape_type, points) ==
    IF shape_type \in {"circle", "polygon"} THEN 0 ELSE points

\* rotate_coords(x, y, cx, cy, angle), c being the point (cx, cy)
rotate_coords(pts, c, angle) ==
    [j \in 1..Len(pts) |-> PAdd(PRot(PSub(pts[j], c), angle), c)]

(***************************************************************************)
(* Colour strings                                                          *)
(***************************************************************************)
HexDigits == <<"0", "1", "2", "3", "4", "5", "6", "7", "8", "9",
               "A", "B", "C", "D", "E", "F">>
LowerHex == <<"0", "1", "2", "3", "4", "5", "6", "7", "8", "9",
              "a", "b", "c", "d", "e", "f">>
IsHex(c) == \E i \in 1..16 : HexDigits[i] = c \/ LowerHex[i] = c
HexVal(c) == (CHOOSE i \in 1..16 : HexDigits[i] = c \/ LowerHex[i] = c) - 1

RECURSIVE LStrip(_)
\* s.lstrip("#")
LStrip(s) == IF s # <<>> /\ Head(s) = "#" THEN LStrip(Tail(s)) ELSE s

\* the Python slice s[i:j]
Slice(s, i, j) == SubSeq(s, i + 1, IF j < Len(s) THEN j ELSE Len(s))

\* int(t, 16) succeeds: t is non-empty and all its characters are hex digits
\* (strings with signs, blanks or underscores are not among the inputs)
IntHexOK(t) == t # <<>> /\ \A i \in 1..Len(t) : IsHex(t[i])
RECURSIVE IntHex(_)
\* int(t, 16)
IntHex(t) == IF t = <<>> THEN 0 ELSE 16 * IntHex(SubSeq(t, 1, Len(t) - 1)) + HexVal(t[Len(t)])

\* tuple(int(c.lstrip("#")[i:i+2], 16)/255 for i in (0, 2, 4)) does not raise
ParseOK(c) == \A i \in {0, 2, 4} : IntHexOK(Slice(LStrip(c), i, i + 2))
\* tuple(int(c.lstrip("#")[i:i+2], 16)/255 for i in (0, 2, 4))
ParseRGB(c) == LET h == LStrip(c)
               IN << R(IntHex(Slice(h, 0, 2)), 255),
                     R(IntHex(Slice(h, 2, 4)), 255),
                     R(IntHex(Slice(h, 4, 6)), 255) >>

\* the colour names among the inputs that the plotting library knows
NamedColors == { <<"r", "e", "d">>, <<"w", "h", "i", "t", "e">> }
\* the plotting library accepts c as a colour: "#" and 3, 6 or 8 hex digits,
\* or a colour name
MplColorOK(c) ==
    \/ c \in NamedColors
    \/ /\ Len(c) \in {4, 7, 9}
       /\ c[1] = "#"
       /\ \A i \in 2..Len(c) : IsHex(c[i])

WHITE == <<"#", "F", "F", "F", "F", "F", "F">>
BLACK == <<"#", "0", "0", "0", "0", "0", "0">>

\* white and black the wrong way round
AdjustTitleSwapped(title_color, bg_rgb, text_rgb) ==
    IF RLt(RAbs(RSub(luminance(bg_rgb), luminance(text_rgb))), D(50))
    THEN (IF RLt(luminance(bg_rgb), D(50)) THEN BLACK ELSE WHITE)
    ELSE title_color
\* the override taken whatever the contrast is
AdjustTitleAlways(title_color, bg_rgb, text_rgb) ==
    IF RLt(luminance(bg_rgb), D(50)) THEN WHITE ELSE BLACK
\* lines 123-124: the text colour used for the parsed colours bg_rgb, text_rgb
AdjustTitle(title_color, bg_rgb, text_rgb) ==
    IF RLt(RAbs(RSub(luminance(bg_rgb), luminance(text_rgb))), D(50))
    THEN (IF RLt(luminance(bg_rgb), D(50)) THEN WHITE ELSE BLACK)
    ELSE title_color

(***************************************************************************)
(* generate_3d_poster                                                      *)
(***************************************************************************)
\* random_palette(style, 20)
PaletteSize == 20

\* what plt.fill and plt.text put on the axes, in drawing order
Fill(kind, i, pts, rgb, alpha) ==
    [kind |-> kind, layer |-> i, pts |-> pts, rgb |-> rgb, alpha |-> alpha, spec |-> <<>>]
Text(line, color) ==
    [kind |-> "text", layer |-> line, pts |-> <<>>, rgb |-> <<>>, alpha |-> ROne, spec |-> color]

\* the draws one layer takes from the random stream
LayerDraws == 6

\* (dx, dy) of lines 97-98
ShadowVec(a) == PPolar(a.shadow_offset, AngNeg(Ang(R(a.light_angle, 360), RZero)))

\* the colour without np.clip
ShapeColorNoClip(a, base, i) ==
    [c \in 1..3 |-> RMul(base[c], RAdd(D(70), RMul(a.brightness_strength, R(i, a.n_layers))))]
\* the colour of line 115-116 for the palette colour base and layer i
ShapeColor(a, base, i) ==
    LET brightness_factor == RAdd(D(70), RMul(a.brightness_strength, R(i, a.n_layers)))
    IN [c \in 1..3 |-> Clip01(RMul(base[c], brightness_factor))]

\* lines 102-118: layer i.  py and np are the stream states after seeding,
\* p the draws the palette took, sides the global n_sides.  shadow_call and
\* shape_call are the two calls of shape() with what they returned, shadow
\* and shape the two fills.
Layer(a, sides, pal, py, np, p, i) ==
    LET o == p + LayerDraws * i
        cx == Draw(py, o + 1)
        cy == Draw(py, o + 2)
        rr == Uniform(D(1), D(25), Draw(py, o + 3))
        nz == ShapeNoise(a.shape_type, NumPoints)
        c_s == PAdd(PXY(cx, cy), ShadowVec(a))
        s0 == shape(c_s, rr, NumPoints, a.wobble, a.shape_type, sides,
                    Draws(np, 2 * i * nz, nz))
        angle == Ang(RZero, Uniform(RNeg(a.rotation_range), a.rotation_range,
                                    Draw(py, o + 4)))
        s1 == rotate_coords(s0, c_s, angle)
        x0 == shape(PXY(cx, cy), rr, NumPoints, a.wobble, a.shape_type, sides,
                    Draws(np, 2 * i * nz + nz, nz))
        x1 == rotate_coords(x0, PXY(cx, cy), angle)
        base_color == Choice(pal, Draw(py, o + 5))
        alpha == Uniform(a.alpha_min, a.alpha_max, Draw(py, o + 6))
    IN [shadow_call |-> [center |-> c_s, r |-> rr, pts |-> s0],
        shape_call |-> [center |-> PXY(cx, cy), r |-> rr, pts |-> x0],
        shadow |-> Fill("shadow", i, s1, <<RZero, RZero, RZero>>, D(45)),
        shape |-> Fill("shape", i, x1, ShapeColor(a, base_color, i), alpha)]

\* the shape filled before its shadow
DrawOrderSwapped(L) == <<L.shape, L.shadow>>
\* the order of the two plt.fill calls of a layer (lines 109, 118)
DrawOrder(L) == <<L.shadow, L.shape>>

RECURSIVE Loop(_, _, _, _, _, _, _)
\* for i in range(n): the layers 0 .. n-1, in order
Loop(a, sides, pal, py, np, p, n) ==
    IF n <= 0 THEN <<>>
    ELSE Append(Loop(a, sides, pal, py, np, p, n - 1),
                Layer(a, sides, pal, py, np, p, n - 1))

RECURSIVE Flatten(_)
Flatten(ss) == IF ss = <<>> THEN <<>> ELSE Head(ss) \o Flatten(Tail(ss))

\* lines 127-132
TextLines(color) == <<Text(1, color), Text(2, color), Text(3, color)>>

\* generate_3d_poster(**a) from the stream states py, np that seeding leaves:
\* what is on the axes when the call ends, how it ends, what shape() was
\* called with and returned, and the streams' states
generate_3d_poster(a, sides, py, np) ==
    LET p == PaletteDraws(a.style, PaletteSize)
        pal == random_palette(a.style, PaletteSize, Draws(py, 0, p))
        n == IF a.n_layers > 0 THEN a.n_layers ELSE 0
        layers == Loop(a, sides, pal, py, np, p, a.n_layers)
        fills == Flatten([i \in 1..n |-> DrawOrder(layers[i])])
        shapes == Flatten([i \in 1..n |-> <<layers[i].shadow_call, layers[i].shape_call>>])
        pyEnd == Advance(py, p + LayerDraws * n)
        npEnd == Advance(np, 2 * n * ShapeNoise(a.shape_type, NumPoints))
    IN IF ~MplColorOK(a.background) THEN
           [outcome |-> "raised", canvas |-> <<>>, title |-> a.title_color,
            palette |-> <<>>, outlines |-> <<>>, py |-> py, np |-> np]
       ELSE IF ~ParseOK(a.background) \/ ~ParseOK(a.title_color) THEN
           [outcome |-> "raised", canvas |-> fills, title |-> a.title_color,
            palette |-> pal, outlines |-> shapes, py |-> pyEnd, np |-> npEnd]
       ELSE
           LET title == AdjustTitle(a.title_color, ParseRGB(a.background),
                                    ParseRGB(a.title_color))
           IN [outcome |-> "returned", canvas |-> fills \o TextLines(title),
               title |-> title, palette |-> pal, outlines |-> shapes,
               py |-> pyEnd, np |-> npEnd]

(***************************************************************************)
(* Inputs                                                                  *)
(***************************************************************************)
\* the defaults of generate_3d_poster (lines 82-86), with n_layers scaled to
\* the model and the seed of the slider; a seed is <<n>>, or <<>> for None
DefaultArgs ==
    [style |-> "pastel", shape_type |-> "blob", n_layers |-> 1, wobble |-> D(3),
     background |-> WHITE, title_color |-> BLACK, seed |-> <<0>>,
     shadow_offset |-> D(2), brightness_strength |-> D(30),
     alpha_min |-> D(60), alpha_max |-> D(90), light_angle |-> 45,
     rotation_range |-> D(30)]

\* the selectbox offers blob, circle and polygon; "ring" is a tag shape()
\* has no branch for
ShapeTypes == {"blob", "circle", "polygon", "ring"}
\* values of the "Polygon Sides" slider
NSides == {3, 4, 6}
IntSeeds == {<<n>> : n \in 0..MaxSeed}

\* "#rrggbb" as the colour picker returns it
HexByte(n) == <<LowerHex[(n \div 16) + 1], LowerHex[(n % 16) + 1]>>
ColorString(r, g, b) == <<"#">> \o HexByte(r) \o HexByte(g) \o HexByte(b)
Levels == {(255 * j) \div NLevels : j \in 0..NLevels}
PickerColors == {ColorString(r, g, b) : r \in Levels, g \in Levels, b \in Levels}

\* colour specifications that are not "#" and six hex digits: a colour name,
\* a short hex colour, and a string no library takes for a colour
Malformed == { <<"w", "h", "i", "t", "e">>, <<"#", "F", "F", "F">>,
               <<"#", "G", "G", "G", "G", "G", "G">> }

\* the calls whose repetition is compared
ArgsMain ==
    {[DefaultArgs EXCEPT !.shape_type = sh, !.seed = sd] :
        sh \in {"blob", "circle", "polygon"}, sd \in IntSeeds}

\* calls that vary the shape, the layer count, the wobble and the seed
ArgsShape ==
    {[DefaultArgs EXCEPT !.shape_type = sh, !.n_layers = n, !.wobble = w, !.seed = sd,
                         !.light_angle = la] :
        sh \in ShapeTypes, n \in 0..MaxLayers, w \in {RZero, D(40)},
        sd \in IntSeeds, la \in {0, 45}}
\* calls with seed=None
ArgsUnseeded ==
    {[DefaultArgs EXCEPT !.shape_type = sh, !.seed = <<>>] : sh \in {"blob", "polygon"}}
\* calls that vary the style, the alpha bounds and the brightness
ArgsColor ==
    {[DefaultArgs EXCEPT !.style = st, !.alpha_min = al[1], !.alpha_max = al[2],
                         !.brightness_strength = bs, !.n_layers = MaxLayers,
                         !.shape_type = "circle", !.seed = sd] :
        st \in Styles, al \in {<<D(60), D(90)>>, <<D(90), D(60)>>, <<RZero, ROne>>},
        bs \in {RZero, D(30), D(90)}, sd \in IntSeeds}
\* calls that vary the two colour specifications
ArgsText ==
    {[DefaultArgs EXCEPT !.background = bg, !.title_color = tc, !.shape_type = "polygon"] :
        bg \in {WHITE, BLACK} \cup Malformed, tc \in {WHITE, BLACK} \cup Malformed}
ArgsWide == ArgsShape \cup ArgsUnseeded \cup ArgsColor \cup ArgsText

\* calls with every pair of colours of the colour picker
ArgsContrast ==
    {[DefaultArgs EXCEPT !.background = bg, !.title_color = tc, !.shape_type = "circle"] :
        bg \in PickerColors, tc \in PickerColors}

\* values of one draw of [0, 1): the least, the middle and one close to 1
DrawVals == {RZero, R(1, 2), R(99, 100)}
\* a style, a count and the draws random_palette takes
PaletteInputs ==
    {[style |-> st, k |-> k, rnd |-> rnd] :
        st \in Styles, k \in 1..MaxK, rnd \in [1..(3 * MaxK) -> DrawVals]}

(***************************************************************************)
(* Initial states and actions                                              *)
(***************************************************************************)
Fresh ==
    /\ outcome = "none"
    /\ canvas = <<>>
    /\ title_used = <<>>
    /\ palette = <<>>
    /\ outlines = <<>>
    /\ used_sides = 0
    /\ calls = 0
    /\ ref = <<>>

\* a process in which nothing was rendered yet: the streams are in any state
Init ==
    /\ pyState \in StreamStates
    /\ npState \in StreamStates
    /\ n_sides \in NSides
    /\ call = <<>>
    /\ Fresh

\* line 143: the "Polygon Sides" slider sets the module-level n_sides
SetNSides ==
    /\ \E n \in NSides \ {n_sides} : n_sides' = n
    /\ UNCHANGED <<pyState, npState, call, outcome, canvas, title_used, palette,
                   outlines, used_sides, calls, ref>>

\* lines 88-136: one call generate_3d_poster(**a).  random.seed(None) and
\* np.random.seed(None) take the state from the system's entropy.
Render(a) ==
    \E e1 \in (IF a.seed = <<>> THEN StreamStates ELSE {PySeed(a.seed[1])}),
       e2 \in (IF a.seed = <<>> THEN StreamStates ELSE {NpSeed(a.seed[1])}) :
        \E res \in {generate_3d_poster(a, n_sides, e1, e2)} :
           /\ call' = <<a>>
           /\ outcome' = res.outcome
           /\ canvas' = res.canvas
           /\ title_used' = res.title
           /\ palette' = res.palette
           /\ outlines' = res.outlines
           /\ used_sides' = n_sides
           /\ calls' = IF calls < 2 THEN calls + 1 ELSE calls
           /\ pyState' = res.py
           /\ npState' = res.np
           /\ UNCHANGED n_sides

\* what a tracked call leaves for comparison
Snapshot == [args |-> call[1], sides |-> used_sides, outcome |-> outcome,
             canvas |-> canvas, title |-> title_used]

\* a call of the script (line 157) in a process that keeps running
CallTracked ==
    /\ \E a \in ArgsMain : Render(a)
    /\ ref' = IF ref = <<>> THEN <<Snapshot>>' ELSE ref

Next == CallTracked \/ SetNSides
Spec == Init /\ [][Next]_vars

(***************************************************************************)
(* One call on drawn inputs                                                *)
(***************************************************************************)
\* the arguments, the streams and n_sides are drawn, the call is pending
InitRender ==
    /\ pyState \in {0, StreamMod - 1}
    /\ npState \in {0, StreamMod - 1}
    /\ n_sides \in NSides
    /\ call \in {<<a>> : a \in ArgsWide}
    /\ Fresh

InitContrast ==
    /\ pyState = 0
    /\ npState = 0
    /\ n_sides = 6
    /\ call \in {<<a>> : a \in ArgsContrast}
    /\ Fresh

\* the pending call runs
Generate ==
    /\ outcome = "none"
    /\ Render(call[1])
    /\ UNCHANGED ref

SpecRender == InitRender /\ [][Generate]_vars
SpecContrast == InitContrast /\ [][Generate]_vars

InitPalette ==
    /\ pyState = 0
    /\ npState = 0
    /\ n_sides = 6
    /\ call \in {<<a>> : a \in PaletteInputs}
    /\ Fresh

\* random_palette(style, k) on the drawn values
ApplyPalette ==
    /\ outcome = "none"
    /\ palette' = random_palette(call[1].style, call[1].k, call[1].rnd)
    /\ outcome' = "returned"
    /\ UNCHANGED <<pyState, npState, n_sides, call, canvas, title_used,
                   outlines, used_sides, calls, ref>>

SpecPalette == InitPalette /\ [][ApplyPalette]_vars

(***************************************************************************)
(* Properties                                                              *)
(***************************************************************************)
Args == call[1]
Done == call # <<>> /\ outcome # "none"
SameAsRef == /\ outcome = ref[1].outcome
             /\ canvas = ref[1].canvas
             /\ title_used = ref[1].title
\* the fills on the canvas, and the layers they make
FillIdx == {j \in 1..Len(canvas) : canvas[j].kind # "text"}
LayersDrawn == Cardinality(FillIdx) \div 2
Lum(c) == luminance(ParseRGB(c))
Contrast(c, d) == RAbs(RSub(Lum(c), Lum(d)))
Between(x, lo, hi) == RLeq(lo, x) /\ RLeq(x, hi)

\* C1 (as stated): a call with the arguments and the integer seed of an
\* earlier call ends like it and draws the same fills and text colour,
\* whatever the streams' states were before, whatever was rendered in
\* between, and whatever the module-level n_sides is at either call.
DeterminismAnySides ==
    (ref # <<>> /\ Args = ref[1].args) => SameAsRef

\* C1 (amended): the same, provided that for shape_type "polygon" n_sides
\* has the same value at both calls.
Determinism ==
    (/\ ref # <<>>
     /\ Args = ref[1].args
     /\ (Args.shape_type = "polygon" => used_sides = ref[1].sides))
    => SameAsRef

\* a second call repeated a blob render after n_sides had changed
DeterminismWitness ==
    /\ ref # <<>>
    /\ calls = 2
    /\ Args = ref[1].args
    /\ Args.shape_type = "blob"
    /\ used_sides # ref[1].sides
    /\ canvas = ref[1].canvas
    /\ Len(canvas) = 2 * Args.n_layers + 3

\* C2: random_palette(style, k) returns exactly k colours, every channel of
\* which lies in [0, 1], for every style and all values of the draws.
PaletteInvariant ==
    outcome = "returned" =>
        /\ Len(palette) = Args.k
        /\ \A i \in 1..Len(palette) : \A c \in 1..3 : Between(palette[i][c], RZero, ROne)

\* the length half of C2 alone
PaletteLength == outcome = "returned" => Len(palette) = Args.k

\* C3: the text colour finally used differs in luminance from the background
\* by at least 0.5 or is the requested colour unchanged, and it is unchanged
\* exactly when the requested colour differs from the background by at
\* least 0.5.
ContrastGuarantee ==
    outcome = "returned" =>
        /\ \/ RLeq(D(50), Contrast(title_used, Args.background))
           \/ title_used = Args.title_color
        /\ title_used = Args.title_color
             <=> RLeq(D(50), Contrast(Args.title_color, Args.background))

\* a requested colour too close to a dark background was replaced by white
ContrastWitness ==
    /\ outcome = "returned"
    /\ title_used = WHITE
    /\ title_used # Args.title_color
    /\ RLt(Contrast(Args.title_color, Args.background), D(50))
    /\ RLeq(D(50), Contrast(title_used, Args.background))

\* C4: a call either returns a complete canvas (all layers and the three
\* text lines) or raises before any fill was drawn.
NoPartialRender ==
    /\ outcome = "raised" => canvas = <<>>
    /\ outcome = "returned" =>
          Len(canvas) = 2 * (IF Args.n_layers > 0 THEN Args.n_layers ELSE 0) + 3

\* a parameter the interface rules out
Invalid(a) ==
    \/ a.n_layers < 1
    \/ RLt(a.alpha_max, a.alpha_min)
    \/ ~Between(a.alpha_min, RZero, ROne)
    \/ ~Between(a.alpha_max, RZero, ROne)

\* C5: a call with an invalid parameter ends in an error and returns no
\* canvas.
FailFast == (Done /\ Invalid(Args)) => outcome = "raised"

\* C6: a call that returns with n_layers = n >= 1 has drawn n shadows and n
\* shapes, the shadow of layer i immediately before the shape of layer i,
\* the layers in increasing order, and the three text lines after the last
\* layer.
LayerOrder ==
    (outcome = "returned" /\ Args.n_layers >= 1) =>
        LET n == Args.n_layers
        IN /\ Len(canvas) = 2 * n + 3
           /\ Cardinality({j \in 1..Len(canvas) : canvas[j].kind = "shadow"}) = n
           /\ Cardinality({j \in 1..Len(canvas) : canvas[j].kind = "shape"}) = n
           /\ \A i \in 0..(n - 1) :
                 /\ canvas[2 * i + 1].kind = "shadow" /\ canvas[2 * i + 1].layer = i
                 /\ canvas[2 * i + 2].kind = "shape" /\ canvas[2 * i + 2].layer = i
           /\ \A j \in 1..3 : canvas[2 * n + j].kind = "text" /\ canvas[2 * n + j].layer = j

\* a render of two layers returned
LayerOrderWitness ==
    /\ outcome = "returned"
    /\ Args.n_layers = 2
    /\ canvas[4].kind = "shape"
    /\ canvas[4].layer = 1
    /\ canvas[5].kind = "text"

\* the outline o is closed
Closed(o) == o.pts # <<>> /\ o.pts[Len(o.pts)] = o.pts[1]
\* the outline o is the polygon of N sides about o.center with radius o.r
RegularPolygon(o, N) ==
    /\ Len(o.pts) = N + 1
    /\ \A k \in 1..N : o.pts[k] = PAdd(o.center, PPolar(o.r, Ang(R(k - 1, N), RZero)))

ShadowIsCopy ==
    Done => \A i \in 0..(LayersDrawn - 1) :
        LET sh == canvas[2 * i + 1].pts
            sp == canvas[2 * i + 2].pts
        IN /\ Len(sh) = Len(sp)
           /\ \A k \in 1..Len(sh) : PSub(sh[k], sp[k]) = ShadowVec(Args)

\* the shadow is a copy where shape() draws nothing from the numpy stream
ShadowIsCopyUnlessBlob ==
    (Done /\ Args.shape_type \in {"circle", "polygon"}) =>
        \A i \in 0..(LayersDrawn - 1) :
            LET sh == canvas[2 * i + 1].pts
                sp == canvas[2 * i + 2].pts
            IN /\ Len(sh) = Len(sp)
               /\ \A k \in 1..Len(sh) : PSub(sh[k], sp[k]) = ShadowVec(Args)

\* C9: with alpha_min, alpha_max in [0, 1] in either order and
\* brightness_strength >= 0, every shape fill has its three channels in
\* [0, 1], being a palette colour times 0.7 + brightness_strength*i/n_layers
\* and then clipped, and an alpha in [0, 1] between alpha_min and alpha_max;
\* every shadow fill is black with alpha 0.45.
FillRange ==
    (/\ Done
     /\ Between(Args.alpha_min, RZero, ROne)
     /\ Between(Args.alpha_max, RZero, ROne)
     /\ RLeq(RZero, Args.brightness_strength))
    => \A j \in FillIdx :
        LET f == canvas[j]
            factor == RAdd(R(7, 10), RMul(Args.brightness_strength, R(f.layer, Args.n_layers)))
        IN IF f.kind = "shadow"
           THEN f.alpha = R(45, 100) /\ f.rgb = <<RZero, RZero, RZero>>
           ELSE /\ \A c \in 1..3 : Between(f.rgb[c], RZero, ROne)
                /\ Between(f.alpha, RZero, ROne)
                /\ \/ Between(f.alpha, Args.alpha_min, Args.alpha_max)
                   \/ Between(f.alpha, Args.alpha_max, Args.alpha_min)
                /\ \E q \in 1..Len(palette) : \A c \in 1..3 :
                      LET v == RMul(palette[q][c], factor)
                      IN f.rgb[c] = IF RLt(ROne, v) THEN ROne ELSE v

\* a shape fill whose colour was clipped, drawn with alpha_min > alpha_max
FillRangeWitness ==
    /\ outcome = "returned"
    /\ RLt(Args.alpha_max, Args.alpha_min)
    /\ \E j \in FillIdx :
          /\ canvas[j].kind = "shape"
          /\ canvas[j].rgb[1] = ROne
          /\ \A q \in 1..Len(palette) : RLt(palette[q][1], ROne)
          /\ RLt(Args.alpha_max, canvas[j].alpha)

\* C10: whenever the requested text colour is overridden (it differs from
\* the background by less than 0.5 in luminance), the replacement is pure
\* white or pure black, the one of the two whose luminance is at least as
\* far from the background's as the other's.
ContrastMaximizing ==
    (outcome = "returned" /\ RLt(Contrast(Args.title_color, Args.background), D(50))) =>
        /\ title_used \in {WHITE, BLACK}
        /\ \A other \in {WHITE, BLACK} :
              RLeq(Contrast(other, Args.background), Contrast(title_used, Args.background))

\* a requested colour too close to a light background was replaced by black
MaximizingWitness ==
    /\ outcome = "returned"
    /\ RLt(Contrast(Args.title_color, Args.background), D(50))
    /\ title_used = BLACK
    /\ Args.title_color # BLACK
    /\ RLt(Contrast(WHITE, Args.background), Contrast(BLACK, Args.background))
====
